---- MODULE Spec2Model ----
(***************************************************************************)
(* target_gsheet.py: a Singer target that reads SCHEMA / RECORD / STATE    *)
(* messages, turns every record into a row of its stream's sheet, commits  *)
(* all rows in one values.batchUpdate request at end of input and then     *)
(* writes the last state to stdout.                                        *)
(*                                                                         *)
(* Python values are records tagged by t:                                  *)
(*   [t |-> "none"]                          None                          *)
(*   [t |-> "int", n |-> 7]                  a number                      *)
(*   [t |-> "str", src, id, off, len]        the len characters from off   *)
(*                                           of the text (src, id)         *)
(*   [t |-> "list", id, len]                 a list whose str() has len    *)
(*                                           characters                    *)
(*   [t |-> "map", items |-> <<<<k, v>>..>>] a dict, in insertion order    *)
(* A dict is the sequence of its <<key, value>> items, keys unique.        *)
(***************************************************************************)
EXTENDS Integers, Sequences, FiniteSets, TLC

\* ---------------------------------------------------------------- bounds
\* Lines read from the input in one run.
MaxLines == 5
\* RECORD messages written in one run.
MaxRecords == 2
\* Items of the 'responses' list of a batchUpdate response.
MaxItems == 2

\* ------------------------------------------------------- program constants
MAX_RETRIES == 10
\* The cell size limit of lines 164, 168 and 169.
CellLimit == 50000

\* ----------------------------------------------------------- Python values
None == [t |-> "none"]
Num(n) == [t |-> "int", n |-> n]
Text(id, len) == [t |-> "str", src |-> "text", id |-> id, off |-> 0, len |-> len]
List(id, len) == [t |-> "list", id |-> id, len |-> len]
Map(items) == [t |-> "map", items |-> items]

Min(a, b) == IF a < b THEN a ELSE b

RECURSIVE Digits(_)
Digits(n) == IF n < 10 THEN 1 ELSE 1 + Digits(n \div 10)

\* str(value): a string is itself, None is the 4 characters "None", a number
\* its decimal digits, a list its repr.
str(v) ==
  CASE v.t = "str" -> v
    [] v.t = "none" -> [t |-> "str", src |-> "none", id |-> 0, off |-> 0, len |-> 4]
    [] v.t = "int" -> [t |-> "str", src |-> "int", id |-> v.n, off |-> 0, len |-> Digits(v.n)]
    [] v.t = "list" -> [t |-> "str", src |-> "list", id |-> v.id, off |-> 0, len |-> v.len]

\* len(s) of a string.
len(s) == s.len

\* s[i:j] of a string, Python slice semantics (indices clamped to the length).
Slice(s, i, j) ==
  LET lo == Min(i, s.len)
      hi == Min(j, s.len)
  IN [s EXCEPT !.off = s.off + lo, !.len = IF hi > lo THEN hi - lo ELSE 0]

\* ------------------------------------------------------------------ dicts
Keys(d) == [i \in 1..Len(d) |-> d[i][1]]
KeySet(d) == {d[i][1] : i \in 1..Len(d)}
HasKey(d, k) == k \in KeySet(d)
Lookup(d, k) == d[CHOOSE i \in 1..Len(d) : d[i][1] = k][2]
\* d.get(k, None)
Get(d, k) == IF HasKey(d, k) THEN Lookup(d, k) ELSE None
\* d[k] = v: an existing key keeps its position, a new key goes last.
SetItem(d, k, v) ==
  IF HasKey(d, k)
  THEN [i \in 1..Len(d) |-> IF d[i][1] = k THEN <<k, v>> ELSE d[i]]
  ELSE Append(d, <<k, v>>)
\* dict(items)
RECURSIVE dict(_)
dict(items) ==
  IF items = <<>> THEN <<>>
  ELSE LET n == Len(items)
       IN SetItem(dict(SubSeq(items, 1, n - 1)), items[n][1], items[n][2])

\* ---------------------------------------------------------------- flatten
RECURSIVE flatten(_, _)
RECURSIVE FlattenItems(_, _, _)
\* The items list after the loop of lines 116-121 has run over d[i..].
FlattenItems(d, parent_key, i) ==
  IF i > Len(d) THEN <<>>
  ELSE LET k == d[i][1]
           v == d[i][2]
           new_key == IF parent_key # "" THEN parent_key \o "__" \o k ELSE k
           here == IF v.t = "map"
                   THEN flatten(v.items, new_key)
                   ELSE << <<new_key, IF v.t = "list" THEN str(v) ELSE v>> >>
       IN here \o FlattenItems(d, parent_key, i + 1)

flatten(d, parent_key) == dict(FlattenItems(d, parent_key, 1))

\* ------------------------------------------------------------------ input
Streams == {"orders", "x"}

\* The value of a STATE message: an opaque JSON object.
Token(id) == [t |-> "obj", id |-> id]
StateValues == {Token("A"), Token("B")}

\* A JSON schema, reduced to its 'required' keyword.
SchemaAny == [required |-> {}]
SchemaId == [required |-> {"id"}]

\* jsonschema.validate(record, schema) passes.
validate(record, schema) == schema.required \subseteq KeySet(record)

R1 == << <<"id", Num(1)>>, <<"amt", Num(9)>> >>
R2 == << <<"id", Num(2)>>, <<"amt", Num(3)>> >>
RBig == << <<"id", Num(3)>>, <<"note", Text(1, 120000)>> >>
RNest ==
  << <<"amt", Num(3)>>,
     <<"meta", Map(<< <<"k", Text(2, 50000)>>, <<"tags", List(1, 12)>> >>)>> >>

\* What singer.parse_message makes of a line.
RecordMessage(stream, record) ==
  [type |-> "RECORD", stream |-> stream, record |-> record]
StateMessage(value) == [type |-> "STATE", value |-> value]
SchemaMessage(stream, schema, key_props) ==
  [type |-> "SCHEMA", stream |-> stream, schema |-> schema, key_properties |-> key_props]
\* A message singer parses that is none of the three (ACTIVATE_VERSION).
OtherMessage == [type |-> "ACTIVATE_VERSION"]
\* A line that is not JSON: parse_message raises JSONDecodeError.
MalformedLine == [type |-> "MALFORMED"]
NoLine == [type |-> "NONE"]

Lines ==
  { SchemaMessage("orders", SchemaId, <<"id">>),
    SchemaMessage("orders", SchemaAny, <<>>),
    SchemaMessage("x", SchemaAny, <<>>),
    RecordMessage("orders", R1),
    RecordMessage("orders", RBig),
    RecordMessage("orders", RNest),
    RecordMessage("x", R2),
    OtherMessage,
    MalformedLine }
  \cup {StateMessage(v) : v \in StateValues}

\* ------------------------------------------------------ Spreadsheet Service
\* The spreadsheet at the start of the run: the first row of each sheet it has.
NoSheets == [s \in {} |-> <<>>]
InitialBackends ==
  { NoSheets,
    [s \in {"orders"} |-> <<>>],
    [s \in {"orders"} |-> <<"id", "amt", "note">>] }

\* Service calls, as logged.
AddSheetCall(title) == [op |-> "AddSheet", title |-> title]
GetSpreadsheetCall == [op |-> "GetSpreadsheet"]
GetValuesCall(range) == [op |-> "GetValues", range |-> range]
BatchUpdateValuesCall(data) == [op |-> "BatchUpdateValues", data |-> data]

\* What execute() of values.batchUpdate can give: an HttpError (status, and
\* whether e.content is empty, has an error message, or also error values), or
\* a response, with or without 'responses', each item with or without 'error'.
NoResponse == [kind |-> "none"]
HttpErrors ==
  { [kind |-> "HttpError", status |-> 400, content |-> "values"],
    [kind |-> "HttpError", status |-> 400, content |-> "message"],
    [kind |-> "HttpError", status |-> 403, content |-> ""],
    [kind |-> "HttpError", status |-> 429, content |-> "message"],
    [kind |-> "HttpError", status |-> 503, content |-> ""] }
ItemErrors == UNION {[1..k -> BOOLEAN] : k \in 0..MaxItems}
OkResponses ==
  {[kind |-> "ok", has_responses |-> FALSE, responses |-> <<>>]}
  \cup {[kind |-> "ok", has_responses |-> TRUE, responses |-> r] : r \in ItemErrors}

\* An element of the request's data list is a ValueRange object.
IsEntry(e) == "range" \in DOMAIN e
\* The service answers 2xx only to a request whose data are all ValueRange
\* objects; any request can fail.
BatchResponses(data) ==
  HttpErrors \cup (IF \A i \in 1..Len(data) : IsEntry(data[i]) THEN OkResponses ELSE {})

\* ----------------------------------------------- persist_lines, pure parts
\* Mutant: a key already registered keeps its value (setdefault).
Put_setdefault(d, k, v) ==
  [s \in DOMAIN d \cup {k} |-> IF s \in DOMAIN d THEN d[s] ELSE v]

\* d[k] = v on a registry keyed by stream name.
Put(d, k, v) == [s \in DOMAIN d \cup {k} |-> IF s = k THEN v ELSE d[s]]

\* Mutant: the range names no sheet.
RangeName_unqualified(stream) == "A1:ZZZ"

\* "{}!A1:ZZZ".format(msg.stream)
RangeName(stream) == stream \o "!A1:ZZZ"

\* Mutant: the first row of the sheet is ignored.
HeaderFromFirstRow_record(first_row, flattened_record) == Keys(flattened_record)

\* The header of a stream seen for the first time on an existing sheet.
HeaderFromFirstRow(first_row, flattened_record) ==
  IF first_row # <<>> THEN first_row ELSE Keys(flattened_record)

\* [flattened_record.get(x, None) for x in headers_by_stream[msg.stream]]
RowValues(flattened_record, header) ==
  [i \in 1..Len(header) |-> Get(flattened_record, header[i])]

\* Mutant: a value of exactly the limit counts as oversized.
Oversized_at_limit(values) == \E i \in 1..Len(values) : len(str(values[i])) >= CellLimit

\* any(len(str(value)) > 50000 for value in values)
Oversized(values) == \E i \in 1..Len(values) : len(str(values[i])) > CellLimit

\* [str(value)[i:i + 50000] for i in range(0, len(str(value)), 50000)]
Chunks(s) ==
  [k \in 1..((len(s) + CellLimit - 1) \div CellLimit) |->
     Slice(s, (k - 1) * CellLimit, k * CellLimit)]

\* split_values after the loop of lines 167-172.
RECURSIVE SplitValues(_)
SplitValues(values) ==
  IF values = <<>> THEN <<>>
  ELSE LET value == Head(values)
       IN (IF len(str(value)) > CellLimit THEN Chunks(str(value)) ELSE <<str(value)>>)
          \o SplitValues(Tail(values))

\* {'range': ..., 'values': ...}
Entry(range_name, rows_) == [range |-> range_name, values |-> rows_]
\* The keys of that dict, in order.
EntryKeys == <<"range", "values">>

\* list.extend(d) with a dict d: iterating a dict yields its keys, so the list
\* gains the key strings and nothing of the dict's values.
ExtendWithDict(list, d) == list \o [i \in 1..Len(EntryKeys) |-> [key |-> EntryKeys[i]]]

\* Mutant: the new entry replaces the pending list instead of joining it.
BatchAfterRecord_overwrite(batch, range_name, values) ==
  <<Entry(range_name, <<values>>)>>

\* batch_updates after lines 164-181.
BatchAfterRecord(batch, range_name, values) ==
  IF Oversized(values)
  THEN ExtendWithDict(batch,
         Entry(range_name, [i \in 1..Len(SplitValues(values)) |-> <<SplitValues(values)[i]>>]))
  ELSE Append(batch, Entry(range_name, <<values>>))

\* Mutant: a RECORD leaves the pending state alone.
StateAfterRecord_kept(s) == s

\* state after a RECORD (line 183).
StateAfterRecord(s) == None

\* Mutant: an HttpError is logged and not raised again.
CommitRaises_http_swallowed(resp) ==
  /\ resp.kind = "ok"
  /\ resp.has_responses
  /\ \E i \in 1..Len(resp.responses) : resp.responses[i]

\* Mutant: only the first item of 'responses' is inspected.
CommitRaises_first_item(resp) ==
  \/ resp.kind = "HttpError"
  \/ /\ resp.kind = "ok"
     /\ resp.has_responses
     /\ Len(resp.responses) > 0
     /\ resp.responses[1]

\* The batchUpdate outcome makes lines 198-226 raise.
CommitRaises(resp) ==
  \/ resp.kind = "HttpError"
  \/ /\ resp.kind = "ok"
     /\ resp.has_responses
     /\ \E i \in 1..Len(resp.responses) : resp.responses[i]

\* json.dumps(state), as the line written to stdout.
Dumps(s) == [json |-> s.id]

\* stdout after emit_state(state).
emit_state(out, s) == IF s # None THEN Append(out, Dumps(s)) ELSE out

\* giveup(exc) of the backoff decorator, on the status of exc.resp.
giveup(status) == 400 <= status /\ status < 500 /\ status # 429

\* ------------------------------------------------------------------ state
VARIABLES
  pc,                 \* "reading" (the loop of persist_lines), "returned"
                      \* (persist_lines returned to main), "done", "failed"
  line,               \* the line the loop read last
  nLines,             \* lines read so far
  state, schemas, key_properties, headers_by_stream, batch_updates,
  spreadsheet,        \* titles of spreadsheet['sheets'], as last fetched
  backend,            \* the service's sheets: title -> first row
  calls,              \* the Service calls made, in order
  response,           \* what the batchUpdate call gave
  stdout,             \* lines written to stdout
  failure,            \* the exception that ended the run, "" if none
  last_state,         \* history: value of the last STATE message read
  states_seen,        \* history: values of all STATE messages read
  record_since_state, \* history: a RECORD was written after the last STATE
  rows,               \* history: stream and row values of each RECORD written
  fl_pc,              \* a call of flatten on its own: "ready", "called", "idle"
  fl_in,              \* its argument d
  fl_out              \* its result

locals == <<state, schemas, key_properties, headers_by_stream, batch_updates>>
service == <<spreadsheet, backend, calls>>
history == <<last_state, states_seen, record_since_state, rows>>
flat == <<fl_pc, fl_in, fl_out>>
vars == <<pc, line, nLines, locals, service, response, stdout, failure, history, flat>>

Init ==
  /\ pc = "reading"
  /\ line = NoLine
  /\ nLines = 0
  /\ state = None
  /\ schemas = [s \in {} |-> SchemaAny]
  /\ key_properties = [s \in {} |-> <<>>]
  /\ headers_by_stream = [s \in {} |-> <<>>]
  /\ batch_updates = <<>>
  /\ backend \in InitialBackends
  /\ spreadsheet = DOMAIN backend
  /\ calls = <<>>
  /\ response = NoResponse
  /\ stdout = <<>>
  /\ failure = ""
  /\ last_state = None
  /\ states_seen = {}
  /\ record_since_state = FALSE
  /\ rows = <<>>
  /\ fl_pc = "idle"
  /\ fl_in = <<>>
  /\ fl_out = <<>>

\* The loop reads the next line.
Read(msg) ==
  /\ pc = "reading"
  /\ nLines < MaxLines
  /\ line' = msg
  /\ nLines' = nLines + 1
  /\ UNCHANGED flat

\* Mutant: the error is logged and the loop goes on.
Raise_logged(exc) ==
  /\ pc' = pc
  /\ failure' = exc

\* An exception leaves persist_lines and main.
Raise(exc) ==
  /\ pc' = "failed"
  /\ failure' = exc

\* Mutant: a header taken from the record is written as a row of its own first.
WriteRow_with_header(msg, flattened_record, header) ==
  LET values == RowValues(flattened_record, header)
      names == [i \in 1..Len(header) |-> [t |-> "key", name |-> header[i]]]
      batch == IF msg.stream \notin DOMAIN headers_by_stream
                  /\ header = Keys(flattened_record)
               THEN Append(batch_updates, Entry(RangeName(msg.stream), <<names>>))
               ELSE batch_updates
  IN /\ headers_by_stream' = Put(headers_by_stream, msg.stream, header)
     /\ batch_updates' = BatchAfterRecord(batch, RangeName(msg.stream), values)
     /\ state' = StateAfterRecord(state)
     /\ rows' = Append(rows, [stream |-> msg.stream, values |-> values])
     /\ record_since_state' = TRUE
     /\ pc' = "reading"
     /\ UNCHANGED <<schemas, key_properties, failure, last_state, states_seen>>

\* Lines 163-183: the row is added to the batch under the header.
WriteRow(msg, flattened_record, header) ==
  LET values == RowValues(flattened_record, header)
  IN /\ headers_by_stream' = Put(headers_by_stream, msg.stream, header)
     /\ batch_updates' = BatchAfterRecord(batch_updates, RangeName(msg.stream), values)
     /\ state' = StateAfterRecord(state)
     /\ rows' = Append(rows, [stream |-> msg.stream, values |-> values])
     /\ record_since_state' = TRUE
     /\ pc' = "reading"
     /\ UNCHANGED <<schemas, key_properties, failure, last_state, states_seen>>

\* Mutant: the spreadsheet fetched after add_sheet is dropped.
RefreshedSpreadsheet_stale(old, fetched) == old

\* spreadsheet after line 154: the titles get_spreadsheet returned.
RefreshedSpreadsheet(old, fetched) == fetched

\* Mutant: the header is resolved again for every RECORD.
HeaderCached_never(stream) == FALSE

\* The stream's header is already resolved (neither branch of lines 152-161).
HeaderCached(stream) == stream \in DOMAIN headers_by_stream

\* Mutant: a RECORD of a stream without schema is written unvalidated.
RecordFailure_unchecked(msg) ==
  IF msg.stream \in DOMAIN schemas /\ ~validate(msg.record, schemas[msg.stream])
  THEN "ValidationError"
  ELSE ""

\* Lines 141-145: the exception a RECORD raises before it is flattened, "" if none.
RecordFailure(msg) ==
  IF msg.stream \notin DOMAIN schemas THEN "MissingSchema"
  ELSE IF ~validate(msg.record, schemas[msg.stream]) THEN "ValidationError"
  ELSE ""

\* Lines 134-138: the line does not parse.
ParseError(msg) ==
  /\ msg.type = "MALFORMED"
  /\ Read(msg)
  /\ Raise("JSONDecodeError")
  /\ UNCHANGED <<locals, service, response, stdout, history>>

\* Lines 140-183: a RECORD message.
Record(msg) ==
  /\ msg.type = "RECORD"
  /\ Len(rows) < MaxRecords
  /\ Read(msg)
  /\ UNCHANGED <<response, stdout>>
  /\ IF RecordFailure(msg) # ""
     THEN /\ Raise(RecordFailure(msg))
          /\ UNCHANGED <<locals, service, history>>
     ELSE
       LET flattened_record == flatten(msg.record, "")
           new_sheet_needed == msg.stream \notin spreadsheet
           range_name == RangeName(msg.stream)
           added == Put(backend, msg.stream, <<>>)
       IN IF new_sheet_needed
          THEN \/ \* add_sheet raises HttpError
                  /\ calls' = Append(calls, AddSheetCall(msg.stream))
                  /\ Raise("HttpError")
                  /\ UNCHANGED <<locals, spreadsheet, backend, history>>
               \/ \* add_sheet succeeds, get_spreadsheet raises HttpError
                  /\ calls' = calls \o <<AddSheetCall(msg.stream), GetSpreadsheetCall>>
                  /\ backend' = added
                  /\ Raise("HttpError")
                  /\ UNCHANGED <<locals, spreadsheet, history>>
               \/ /\ calls' = calls \o <<AddSheetCall(msg.stream), GetSpreadsheetCall>>
                  /\ backend' = added
                  /\ spreadsheet' = RefreshedSpreadsheet(spreadsheet, DOMAIN added)
                  /\ WriteRow(msg, flattened_record, Keys(flattened_record))
          ELSE IF ~HeaderCached(msg.stream)
          THEN \/ \* get_values raises HttpError
                  /\ calls' = Append(calls, GetValuesCall(range_name \o "1"))
                  /\ Raise("HttpError")
                  /\ UNCHANGED <<locals, spreadsheet, backend, history>>
               \/ /\ calls' = Append(calls, GetValuesCall(range_name \o "1"))
                  /\ WriteRow(msg, flattened_record,
                              HeaderFromFirstRow(backend[msg.stream], flattened_record))
                  /\ UNCHANGED <<spreadsheet, backend>>
          ELSE /\ WriteRow(msg, flattened_record, headers_by_stream[msg.stream])
               /\ UNCHANGED service

\* Mutant: every STATE message is written to stdout at once.
State_emits(msg) ==
  /\ msg.type = "STATE"
  /\ Read(msg)
  /\ state' = msg.value
  /\ stdout' = emit_state(stdout, msg.value)
  /\ last_state' = msg.value
  /\ states_seen' = states_seen \cup {msg.value}
  /\ record_since_state' = FALSE
  /\ UNCHANGED <<pc, schemas, key_properties, headers_by_stream, batch_updates,
                 service, response, failure, rows>>

\* Lines 184-186: a STATE message.
State(msg) ==
  /\ msg.type = "STATE"
  /\ Read(msg)
  /\ state' = msg.value
  /\ last_state' = msg.value
  /\ states_seen' = states_seen \cup {msg.value}
  /\ record_since_state' = FALSE
  /\ UNCHANGED <<pc, schemas, key_properties, headers_by_stream, batch_updates,
                 service, response, stdout, failure, rows>>

\* Lines 187-189: a SCHEMA message.
Schema(msg) ==
  /\ msg.type = "SCHEMA"
  /\ Read(msg)
  /\ schemas' = Put(schemas, msg.stream, msg.schema)
  /\ key_properties' = Put(key_properties, msg.stream, msg.key_properties)
  /\ UNCHANGED <<pc, state, headers_by_stream, batch_updates,
                 service, response, stdout, failure, history>>

\* Lines 190-191: any other message.
Unrecognized(msg) ==
  /\ msg.type \notin {"MALFORMED", "RECORD", "STATE", "SCHEMA"}
  /\ Read(msg)
  /\ Raise("Unrecognized")
  /\ UNCHANGED <<locals, service, response, stdout, history>>

\* Mutant: nothing is sent when no entry is pending.
Commit_skip_empty ==
  /\ pc = "reading"
  /\ IF batch_updates = <<>>
     THEN /\ pc' = "returned"
          /\ UNCHANGED <<calls, response, failure>>
     ELSE /\ calls' = Append(calls, BatchUpdateValuesCall(batch_updates))
          /\ \E resp \in BatchResponses(batch_updates) :
               /\ response' = resp
               /\ IF CommitRaises(resp)
                  THEN Raise("CommitFailed")
                  ELSE pc' = "returned" /\ failure' = failure
  /\ UNCHANGED <<line, nLines, locals, spreadsheet, backend, stdout, history, flat>>

\* Lines 193-228: the input is exhausted; the batch is sent and the response read.
Commit ==
  /\ pc = "reading"
  /\ calls' = Append(calls, BatchUpdateValuesCall(batch_updates))
  /\ \E resp \in BatchResponses(batch_updates) :
       /\ response' = resp
       /\ IF CommitRaises(resp)
          THEN Raise("CommitFailed")
          ELSE pc' = "returned" /\ failure' = failure
  /\ UNCHANGED <<line, nLines, locals, spreadsheet, backend, stdout, history, flat>>

\* Line 257 of main: emit_state(state).
Emit ==
  /\ pc = "returned"
  /\ stdout' = emit_state(stdout, state)
  /\ pc' = "done"
  /\ UNCHANGED <<line, nLines, locals, service, response, failure, history, flat>>

Next ==
  \/ \E msg \in Lines :
       \/ ParseError(msg)
       \/ Record(msg)
       \/ State(msg)
       \/ Schema(msg)
       \/ Unrecognized(msg)
  \/ Commit
  \/ Emit

Spec == Init /\ [][Next]_vars

\* ----------------------------------------------------------------- claims
\* Positions in calls of the batched write requests.
BatchCalls == {i \in 1..Len(calls) : calls[i].op = "BatchUpdateValues"}

\* The batchUpdate outcome reports a failure: an HttpError, or an item of
\* 'responses' with an 'error' field.
ResponseHasError ==
  \/ response.kind = "HttpError"
  \/ /\ response.kind = "ok"
     /\ \E i \in 1..Len(response.responses) : response.responses[i]

\* The batchUpdate call returned a response without any error.
CommitSucceeded == response.kind = "ok" /\ ~ResponseHasError

\* The single-value rows a row with an oversized value is split into.
ChunkRows(values) == [k \in 1..Len(SplitValues(values)) |-> <<SplitValues(values)[k]>>]

\* The write entry that carries a written RECORD.
EntryOfRow(r) ==
  Entry(RangeName(r.stream), IF Oversized(r.values) THEN ChunkRows(r.values) ELSE <<r.values>>)

\* The request data hold the entries of all RECORDs written, in order.
CoversRows(data) ==
  /\ Len(data) = Len(rows)
  /\ \A i \in 1..Len(rows) : data[i] = EntryOfRow(rows[i])

\* The exceptions of message interpretation.
InterpretationErrors == {"JSONDecodeError", "Unrecognized", "MissingSchema", "ValidationError"}

C3_EmitOnlyAfterCommit ==
  stdout # <<>> =>
    /\ pc = "done"
    /\ Cardinality(BatchCalls) = 1
    /\ CommitSucceeded
    /\ Len(stdout) = 1
    /\ \E v \in states_seen : stdout[1] = Dumps(v)

\* A checkpoint was written after two STATE messages.
C3_Witness ==
  /\ stdout # <<>>
  /\ states_seen = StateValues

\* C4: once a line fails interpretation the run has failed on that line,
\* nothing more can happen, no batched write was issued and nothing was
\* written to stdout.
C4_InterpretationFailureStops ==
  failure \in InterpretationErrors =>
    /\ pc = "failed"
    /\ failure = "JSONDecodeError" => line.type = "MALFORMED"
    /\ failure = "Unrecognized" => line.type \notin {"MALFORMED", "RECORD", "STATE", "SCHEMA"}
    /\ failure \in {"MissingSchema", "ValidationError"} => line.type = "RECORD"
    /\ BatchCalls = {}
    /\ stdout = <<>>
    /\ ~ENABLED Next

\* A RECORD failed validation with a state pending and entries accumulated.
C4_Witness ==
  /\ failure = "ValidationError"
  /\ state # None
  /\ batch_updates # <<>>

\* C5: when the batchUpdate call fails with an HttpError, or its response has
\* an item with an error, the run has failed in the commit and nothing is or
\* will be written to stdout.
C5_CommitFailureNoCheckpoint ==
  ResponseHasError =>
    /\ pc = "failed"
    /\ failure = "CommitFailed"
    /\ stdout = <<>>
    /\ ~ENABLED Next

\* Only the second item of the response has an error, with a state pending.
C5_Witness ==
  /\ response.kind = "ok"
  /\ response.responses = <<FALSE, TRUE>>
  /\ state # None
  /\ pc = "failed"

\* C6: while the loop reads input no batched write has been issued; once the
\* input is exhausted exactly one has been issued, it is the last Service call
\* and its data are the pending list, with the entry of every RECORD written
\* that had no oversized value.
C6_OneBatchAtEnd ==
  /\ pc = "reading" => BatchCalls = {}
  /\ (pc \in {"returned", "done"} \/ failure = "CommitFailed") =>
       /\ BatchCalls = {Len(calls)}
       /\ calls[Len(calls)].data = batch_updates
       /\ \A i \in 1..Len(rows) :
            ~Oversized(rows[i].values) =>
              \E j \in 1..Len(batch_updates) : batch_updates[j] = EntryOfRow(rows[i])

\* An input without RECORD: one request, with no data.
C6_Witness ==
  /\ pc = "returned"
  /\ nLines > 0
  /\ rows = <<>>
  /\ BatchCalls = {Len(calls)}
  /\ calls[Len(calls)].data = <<>>

\* C7, as claimed: a commit that failed with a status giveup() lets through
\* (429 or 5xx) was attempted MAX_RETRIES times, one that failed with another
\* 4xx status was attempted once.
C7_RetryPolicy ==
  (failure = "CommitFailed" /\ response.kind = "HttpError") =>
    Cardinality(BatchCalls) = (IF giveup(response.status) THEN 1 ELSE MAX_RETRIES)

\* C8, as claimed: for every RECORD written whose row has an oversized value,
\* each string of the split row is a single-value row of a pending entry that
\* targets the stream's range.
C8_CellSplitting ==
  \A i \in 1..Len(rows) :
    Oversized(rows[i].values) =>
      \A k \in 1..Len(ChunkRows(rows[i].values)) :
        \E j \in 1..Len(batch_updates) :
          /\ IsEntry(batch_updates[j])
          /\ batch_updates[j].range = RangeName(rows[i].stream)
          /\ \E r \in 1..Len(batch_updates[j].values) :
               batch_updates[j].values[r] = ChunkRows(rows[i].values)[k]

\* C9: reading a RECORD of a stream without registered schema fails the run
\* with MissingSchema, makes no Service call and adds no entry; after that
\* failure nothing happens any more (no batched write, no output).
C9_RecordBeforeSchema ==
  [][/\ (/\ nLines' = nLines + 1
         /\ line'.type = "RECORD"
         /\ line'.stream \notin DOMAIN schemas) =>
           /\ pc' = "failed"
           /\ failure' = "MissingSchema"
           /\ UNCHANGED <<locals, service, response, stdout>>
           /\ BatchCalls = {}
     /\ failure = "MissingSchema" => UNCHANGED vars]_vars

\* The failure came after a sheet was created and an entry added for another stream.
C9_Witness ==
  /\ failure = "MissingSchema"
  /\ calls # <<>>
  /\ batch_updates # <<>>
  /\ line.stream \notin spreadsheet

\* C10: a resolved header never changes, and a RECORD of a stream whose header
\* is resolved makes no Service call and, if written, is laid out by that header.
C10_HeaderResolvedOnce ==
  [][/\ \A s \in DOMAIN headers_by_stream :
          /\ s \in DOMAIN headers_by_stream'
          /\ headers_by_stream'[s] = headers_by_stream[s]
     /\ (/\ nLines' = nLines + 1
         /\ line'.type = "RECORD"
         /\ line'.stream \in DOMAIN headers_by_stream) =>
           /\ calls' = calls
           /\ backend' = backend
           /\ pc' = "reading" =>
                rows'[Len(rows')] =
                  [stream |-> line'.stream,
                   values |-> RowValues(flatten(line'.record, ""),
                                        headers_by_stream[line'.stream])]]_vars

\* A second RECORD of a stream, with other keys, after a SCHEMA in between.
C10_Witness ==
  /\ Len(rows) = 2
  /\ rows[1].stream = "orders"
  /\ line = RecordMessage("orders", RNest)
  /\ headers_by_stream["orders"] = <<"id", "amt">>
  /\ schemas["orders"] = SchemaAny
  /\ nLines = 4

\* Positions in a call log of the AddSheet requests for a title.
AddSheetCalls(log, title) ==
  {i \in 1..Len(log) : log[i].op = "AddSheet" /\ log[i].title = title}

\* C11: no stream ever has more than one AddSheet request; an accepted RECORD
\* of a stream that has no sheet issues the stream's only AddSheet request and,
\* when written, resolves the header to the key order of its flattened record.
C11_NewSheet ==
  [][/\ \A s \in Streams : Cardinality(AddSheetCalls(calls', s)) <= 1
     /\ (/\ nLines' = nLines + 1
         /\ line'.type = "RECORD"
         /\ line'.stream \in DOMAIN schemas
         /\ validate(line'.record, schemas[line'.stream])
         /\ line'.stream \notin DOMAIN backend) =>
           /\ AddSheetCalls(calls, line'.stream) = {}
           /\ Cardinality(AddSheetCalls(calls', line'.stream)) = 1
           /\ pc' = "reading" =>
                headers_by_stream'[line'.stream] = Keys(flatten(line'.record, ""))]_vars

\* Sheet orders was created for {"id": 1, "amt": 9} and a second RECORD followed.
C11_Witness ==
  /\ "orders" \in DOMAIN headers_by_stream
  /\ headers_by_stream["orders"] = <<"id", "amt">>
  /\ Cardinality(AddSheetCalls(calls, "orders")) = 1
  /\ Len(rows) = 2
  /\ rows[1] = [stream |-> "orders", values |-> <<Num(1), Num(9)>>]
  /\ rows[2].stream = "orders"

\* C12: a RECORD written to a stream whose sheet has a non-empty first row gets
\* that row as header and, if no value is oversized, adds one entry with one
\* row: per header column the record's value of that key, or None.
C12_ExistingSheet ==
  [][(/\ nLines' = nLines + 1
      /\ line'.type = "RECORD"
      /\ pc' = "reading"
      /\ line'.stream \in DOMAIN backend
      /\ backend[line'.stream] # <<>>) =>
        LET s == line'.stream
            header == backend[s]
            rec == flatten(line'.record, "")
            row == [i \in 1..Len(header) |->
                      IF \E j \in 1..Len(rec) : rec[j][1] = header[i]
                      THEN rec[CHOOSE j \in 1..Len(rec) : rec[j][1] = header[i]][2]
                      ELSE None]
        IN /\ headers_by_stream'[s] = header
           /\ (\A i \in 1..Len(row) : len(str(row[i])) <= CellLimit) =>
                batch_updates' =
                  Append(batch_updates, [range |-> s \o "!A1:ZZZ", values |-> <<row>>])]_vars

\* Header ["id","amt","note"]; {"id":1,"amt":9} gave [1,9,None], and a record
\* without id and note but with other keys gave [None,3,None].
C12_Witness ==
  /\ "orders" \in DOMAIN headers_by_stream
  /\ headers_by_stream["orders"] = <<"id", "amt", "note">>
  /\ Len(batch_updates) = 2
  /\ \A j \in 1..2 : IsEntry(batch_updates[j])
  /\ batch_updates[1].values = << <<Num(1), Num(9), None>> >>
  /\ batch_updates[2].values = << <<None, Num(3), None>> >>
  /\ line = RecordMessage("orders", RNest)

\* ------------------------------------------------------ flatten on its own
\* Leaf values and keys of the records flatten is called on.
FlatLeaves == {Num(1), None, List(1, 12)}
FlatKeys == {"a", "b", ""}

\* The dicts of at most two items with keys of FlatKeys and values of V.
DictsOver(V) ==
  {<<>>}
  \cup {<< <<k, v>> >> : k \in FlatKeys, v \in V}
  \cup {<< <<q[1], q[3]>>, <<q[2], q[4]>> >> :
          q \in {r \in FlatKeys \X FlatKeys \X V \X V : r[1] # r[2]}}

\* Records nested up to two levels, a record three levels deep, and a record
\* whose nested key joins to the name of a sibling key.
FlattenInputs ==
  DictsOver(FlatLeaves \cup {Map(d) : d \in DictsOver(FlatLeaves)})
  \cup { RNest,
         << <<"a", Map(<< <<"b", Map(<< <<"a", List(1, 12)>> >>)>> >>)>> >>,
         << <<"a", Map(<< <<"b", Num(1)>> >>)>>, <<"a__b", None>> >> }

FlattenInit ==
  /\ pc = "reading"
  /\ line = NoLine
  /\ nLines = 0
  /\ state = None
  /\ schemas = [s \in {} |-> SchemaAny]
  /\ key_properties = [s \in {} |-> <<>>]
  /\ headers_by_stream = [s \in {} |-> <<>>]
  /\ batch_updates = <<>>
  /\ backend = NoSheets
  /\ spreadsheet = DOMAIN backend
  /\ calls = <<>>
  /\ response = NoResponse
  /\ stdout = <<>>
  /\ failure = ""
  /\ last_state = None
  /\ states_seen = {}
  /\ record_since_state = FALSE
  /\ rows = <<>>
  /\ fl_pc = "ready"
  /\ fl_in \in FlattenInputs
  /\ fl_out = <<>>

\* Line 146: flattened_record = flatten(msg.record)
FlattenCall ==
  /\ fl_pc = "ready"
  /\ fl_out' = flatten(fl_in, "")
  /\ fl_pc' = "called"
  /\ UNCHANGED <<pc, line, nLines, locals, service, response, stdout, failure,
                 history, fl_in>>

FlattenNext == FlattenCall

FlattenSpec == FlattenInit /\ [][FlattenNext]_vars

\* The components of a path joined by the separator.
RECURSIVE JoinPath(_)
JoinPath(path) ==
  IF Len(path) = 1 THEN path[1]
  ELSE JoinPath(SubSeq(path, 1, Len(path) - 1)) \o "__" \o path[Len(path)]

\* <<path, leaf>> for every non-mapping leaf of d, the path starting with prefix.
RECURSIVE LeafPaths(_, _)
LeafPaths(d, prefix) ==
  UNION { IF d[i][2].t = "map"
          THEN LeafPaths(d[i][2].items, Append(prefix, d[i][1]))
          ELSE {<<Append(prefix, d[i][1]), d[i][2]>>} : i \in 1..Len(d) }

\* The result holds exactly the joined leaf paths of the argument as keys (each
\* once), each with the value of a leaf at such a path: a list as its string
\* form, any other leaf unchanged.
FlattenedAsPaths ==
  /\ KeySet(fl_out) = {JoinPath(p[1]) : p \in LeafPaths(fl_in, <<>>)}
  /\ Cardinality(KeySet(fl_out)) = Len(fl_out)
  /\ \A i \in 1..Len(fl_out) :
       \E p \in LeafPaths(fl_in, <<>>) :
         /\ JoinPath(p[1]) = fl_out[i][1]
         /\ fl_out[i][2] = (IF p[2].t = "list" THEN str(p[2]) ELSE p[2])

\* C13, as claimed: for every nested mapping, flatten returns the joined leaf
\* paths with their leaf values.
C13_Flatten == fl_pc = "called" => FlattenedAsPaths

\* A key of the mapping, at any depth, is the empty string.
RECURSIVE HasEmptyKey(_)
HasEmptyKey(d) ==
  \E i \in 1..Len(d) :
    \/ d[i][1] = ""
    \/ d[i][2].t = "map" /\ HasEmptyKey(d[i][2].items)

\* What does hold of flatten: the same, for mappings without an empty key.
C13_FlattenNonEmptyKeys ==
  (fl_pc = "called" /\ ~HasEmptyKey(fl_in)) => FlattenedAsPaths

\* C14: reading a STATE message makes its value the pending state and changes
\* nothing else of the run: no Service call, no output, the pending list, the
\* schemas, key properties and headers as before, and the loop goes on.
C14_StateFrame ==
  [][(nLines' = nLines + 1 /\ line'.type = "STATE") =>
       /\ state' = line'.value
       /\ pc' = "reading"
       /\ UNCHANGED <<schemas, key_properties, headers_by_stream, batch_updates,
                      spreadsheet, backend, calls, response, stdout, failure>>]_vars

\* STATE B superseded STATE A with a schema, a header and an entry in place.
C14_Witness ==
  /\ line = StateMessage(Token("B"))
  /\ state = Token("B")
  /\ states_seen = StateValues
  /\ batch_updates # <<>>
  /\ DOMAIN headers_by_stream # {}
  /\ calls # <<>>

\* C15: reading a SCHEMA message registers its schema and key properties for
\* its stream, replacing what was registered, and changes nothing else: other
\* streams' registrations, the pending state, the pending list, the headers,
\* the Service and stdout. Only a SCHEMA message changes the registry, and a
\* RECORD of a registered stream fails validation exactly when it does not fit
\* the schema registered last.
C15_SchemaFrame ==
  [][/\ (nLines' = nLines + 1 /\ line'.type = "SCHEMA") =>
          /\ DOMAIN schemas' = DOMAIN schemas \cup {line'.stream}
          /\ DOMAIN key_properties' = DOMAIN key_properties \cup {line'.stream}
          /\ schemas'[line'.stream] = line'.schema
          /\ key_properties'[line'.stream] = line'.key_properties
          /\ \A t \in DOMAIN schemas \ {line'.stream} :
               /\ schemas'[t] = schemas[t]
               /\ key_properties'[t] = key_properties[t]
          /\ pc' = "reading"
          /\ UNCHANGED <<state, headers_by_stream, batch_updates,
                         spreadsheet, backend, calls, response, stdout, failure>>
     /\ <<schemas, key_properties>>' # <<schemas, key_properties>> =>
          (nLines' = nLines + 1 /\ line'.type = "SCHEMA")
     /\ (/\ nLines' = nLines + 1
         /\ line'.type = "RECORD"
         /\ line'.stream \in DOMAIN schemas) =>
           (failure' = "ValidationError" <=>
              ~(schemas[line'.stream].required \subseteq KeySet(line'.record)))]_vars

\* A RECORD without id was written under the first schema of orders and
\* refused under the second, with stream x registered as well.
C15_Witness ==
  /\ failure = "ValidationError"
  /\ line = RecordMessage("orders", RNest)
  /\ Len(rows) = 1
  /\ rows[1].stream = "orders"
  /\ DOMAIN schemas = {"orders", "x"}
  /\ schemas["orders"] = SchemaId

\* No value of the written row is oversized.
FitsCells(r) == \A i \in 1..Len(r.values) : len(str(r.values[i])) <= CellLimit

\* The RECORDs written without an oversized value, in arrival order.
RowsThatFit == SelectSeq(rows, FitsCells)

\* The write entries of the pending list, in order.
PendingEntries == SelectSeq(batch_updates, IsEntry)

\* C16, as claimed: the pending list is, in arrival order, one entry (range and
\* one row) per RECORD written without oversized value, and each of its
\* elements is a write entry.
C16_PendingList ==
  /\ \A j \in 1..Len(batch_updates) : IsEntry(batch_updates[j])
  /\ Len(batch_updates) = Len(RowsThatFit)
  /\ \A i \in 1..Len(RowsThatFit) :
       batch_updates[i] =
         [range |-> RowsThatFit[i].stream \o "!A1:ZZZ", values |-> <<RowsThatFit[i].values>>]

\* What does hold of the pending list: the same, while no RECORD with an
\* oversized value was written.
C16_PendingListWithoutOversized ==
  Len(RowsThatFit) = Len(rows) => C16_PendingList

\* C17: a RECORD written whose row values all have a string length of at most
\* 50000 appends exactly one entry, whose one row holds the values as they
\* are in the flattened record (None for a missing key).
C17_NoSplitUpToLimit ==
  [][(nLines' = nLines + 1 /\ line'.type = "RECORD" /\ pc' = "reading") =>
       LET s == line'.stream
           header == headers_by_stream'[s]
           rec == flatten(line'.record, "")
           row == [i \in 1..Len(header) |-> Get(rec, header[i])]
       IN (\A i \in 1..Len(row) : len(str(row[i])) <= 50000) =>
            batch_updates' =
              Append(batch_updates, [range |-> s \o "!A1:ZZZ", values |-> <<row>>])]_vars

\* A row with a value of exactly 50000 characters went in as one row, the
\* value not split and the number not turned into a string.
C17_Witness ==
  /\ Len(batch_updates) = 1
  /\ IsEntry(batch_updates[1])
  /\ batch_updates[1].values = << <<Num(3), Text(2, 50000), str(List(1, 12))>> >>

\* C18: the entries of the pending list are, in order, those of the RECORDs
\* written without oversized value, each with the range "<stream>!A1:ZZZ" of
\* its RECORD's stream.
C18_FixedRange ==
  /\ Len(PendingEntries) = Len(RowsThatFit)
  /\ \A i \in 1..Len(PendingEntries) :
       PendingEntries[i].range = RowsThatFit[i].stream \o "!A1:ZZZ"

\* Two RECORDs of one stream, two entries with the same range.
C18_Witness ==
  /\ Len(rows) = 2
  /\ rows[1].stream = "orders"
  /\ rows[2].stream = "orders"
  /\ Len(PendingEntries) = 2
  /\ PendingEntries[1].range = "orders!A1:ZZZ"
  /\ PendingEntries[2].range = "orders!A1:ZZZ"

\* The run ended in an exception raised inside the loop.
FailedInLoop == failure \in InterpretationErrors \cup {"HttpError"}

\* C19: no sheet of the service is ever removed or changed; the service
\* changes only by gaining the empty sheet of an AddSheet request made for the
\* RECORD being read; and while the loop reads, or after it failed, the calls
\* made are AddSheet, GetSpreadsheet and GetValues only, with nothing written
\* to stdout.
C19_OnlySheetCreation ==
  [][/\ \A s \in DOMAIN backend : s \in DOMAIN backend' /\ backend'[s] = backend[s]
     /\ backend' # backend =>
          /\ nLines' = nLines + 1
          /\ line'.type = "RECORD"
          /\ DOMAIN backend' = DOMAIN backend \cup {line'.stream}
          /\ backend'[line'.stream] = <<>>
          /\ AddSheetCalls(calls', line'.stream) # AddSheetCalls(calls, line'.stream)
     /\ (pc' = "reading" \/ FailedInLoop') =>
          /\ \A i \in 1..Len(calls') :
               calls'[i].op \in {"AddSheet", "GetSpreadsheet", "GetValues"}
          /\ stdout' = <<>>]_vars

\* The run failed on a later message; the sheet it created is still there and
\* neither a batched write nor a checkpoint was issued.
C19_Witness ==
  /\ pc = "failed"
  /\ failure = "ValidationError"
  /\ BatchCalls = {}
  /\ stdout = <<>>
  /\ AddSheetCalls(calls, "orders") # {}
  /\ "orders" \in DOMAIN backend

\* C20: every row of every pending entry is the row of values of a RECORD
\* written to the entry's stream, and the pending entries hold as many rows as
\* RECORDs were written without oversized value: no row of column names.
C20_NoHeaderRow ==
  /\ \A j \in 1..Len(PendingEntries) :
       /\ Len(PendingEntries[j].values) = 1
       /\ \E i \in 1..Len(rows) :
            /\ PendingEntries[j].range = RangeName(rows[i].stream)
            /\ PendingEntries[j].values[1] = rows[i].values
  /\ Len(PendingEntries) = Len(RowsThatFit)

\* The header of orders came from the first record, on a new sheet or on an
\* empty first row, and two RECORDs were written.
C20_Witness ==
  /\ "orders" \in DOMAIN headers_by_stream
  /\ headers_by_stream["orders"] = <<"id", "amt">>
  /\ backend["orders"] = <<>>
  /\ Len(PendingEntries) = 2
  /\ pc = "returned"

====
